---- MODULE Spec2Model ----
(***************************************************************************)
(* Model of erldash's terminal dashboard controller (src/ui.rs): the       *)
(* App event loop (run / handle_event / handle_key_event / handle_poll),   *)
(* the sliding History Window with its eviction loop, the metrics-table    *)
(* selection cursor, and the terminal session set up by App::new and torn  *)
(* down by Drop.                                                           *)
(*                                                                         *)
(* Time is counted in ticks; one second is TicksPerSec ticks, so Sample    *)
(* timestamps have sub-second resolution as std::time::Instant has.        *)
(***************************************************************************)
EXTENDS Integers, Sequences, FiniteSets

\* ---------------------------------------------------------------- bounds
TicksPerSec == 2      \* resolution of a timestamp: ticks in one second
MaxSamples  == 3      \* Samples the producer sends in one behaviour
MaxChan     == 2      \* Samples waiting in the metrics channel
MaxInput    == 2      \* events waiting in the terminal's input queue
MaxTyped    == 2      \* events the user produces in a behaviour of SpecLive

\* ------------------------------------------------------- program constants
ONE_MINUTE == 60
CHART_DURATION == ONE_MINUTE

\* Option<usize>::None of TableState::selected()
None == -1

\* ------------------------------------------------------------ input values
KeyCodes == {"q", "p", "Left", "Right", "Up", "Down", "Other"}

KeyEvent(code) == [type |-> "Key", code |-> code]
ResizeEvent    == [type |-> "Resize", code |-> "-"]
OtherEvent     == [type |-> "Other", code |-> "-"]

\* crossterm::event::Event as the loop distinguishes it
Events == {KeyEvent(c) : c \in KeyCodes} \cup {ResizeEvent, OtherEvent}

\* the events the user and the terminal produce
TypedEvents == {KeyEvent("q"), KeyEvent("p"), KeyEvent("Up"), KeyEvent("Other"),
                ResizeEvent, OtherEvent}

\* steps by which the producer's clock advances between two Samples, in ticks:
\* half a second or so, and a whole chart duration
Deltas == {1, CHART_DURATION * TicksPerSec}

\* root_metrics_count of the Samples the producer sends
RootCounts == {0, 2}

Metrics(t, n) == [timestamp |-> t, root_metrics_count |-> n]

VARIABLES
    pc,          \* position of the control thread: new, drain, wait, drop, done
    result,      \* outcome of App::new / App::run once decided
    pause,       \* UiState.pause
    history,     \* UiState.history, oldest first
    selected,    \* UiState.metrics_table_state.selected(): None or an index
    inputQ,      \* pending terminal events (crossterm's queue)
    chan,        \* Samples in flight in the mpsc channel
    chanOpen,    \* the producer's Sender is alive
    prodTime,    \* timestamp of the last Sample the producer sent
    sent,        \* number of Samples sent so far
    rawMode,     \* terminal is in raw mode
    altScreen,   \* terminal is in the alternate screen
    teardowns,   \* times teardown_terminal was started
    released,    \* steps of teardown_terminal the last teardown got to (0..3)
    warned,      \* Drop logged "failed to tear down terminal"
    typed,       \* events the user has produced so far
    step,        \* the control thread's last step: new, input_err, drained, key,
                 \* resize, other, sleep, sample, timeout, disconnected, drop
    drew         \* that step issued terminal.draw

vars == <<pc, result, pause, history, selected, inputQ, chan, chanOpen,
          prodTime, sent, rawMode, altScreen, teardowns, released, warned,
          typed, step, drew>>

uiVars   == <<pause, history, selected>>
termVars == <<rawMode, altScreen, teardowns, released, warned>>
envVars  == <<inputQ, chan, chanOpen, prodTime, sent, typed>>

\* ------------------------------------------------------------ pure helpers

\* Instant - Instant: the elapsed Duration, saturating at zero
duration_since(a, b) == IF a >= b THEN a - b ELSE 0

\* Duration::as_secs: whole seconds, the fraction is dropped
as_secs(d) == d \div TicksPerSec

\* variant: the comparison of the eviction test is the wrong way round
within_chart_duration_inverted(timestamp, item) ==
    as_secs(duration_since(timestamp, item.timestamp)) > CHART_DURATION

\* the test of the eviction loop: the item is kept
within_chart_duration(timestamp, item) ==
    as_secs(duration_since(timestamp, item.timestamp)) <= CHART_DURATION

\* the while-let loop of handle_poll: pop from the front until an item is kept
RECURSIVE evict(_, _)
evict(h, timestamp) ==
    IF h = <<>> THEN <<>>
    ELSE IF within_chart_duration(timestamp, Head(h)) THEN h
    ELSE evict(Tail(h), timestamp)

\* history.push_back(metrics) followed by the eviction loop
push_and_evict(h, metrics) == evict(Append(h, metrics), metrics.timestamp)

latest_metrics(h) == h[Len(h)]

unwrap_or(sel, d) == IF sel = None THEN d ELSE sel

min(a, b) == IF a <= b THEN a ELSE b

\* variant: the branch for an empty table forgets select(None)
ensure_table_indices_keep_stale(sel, h) ==
    LET n == latest_metrics(h).root_metrics_count
    IN  IF n >= 1 THEN min(unwrap_or(sel, 0), n - 1) ELSE sel

\* variant: clamps to the count instead of the last index
ensure_table_indices_off_by_one(sel, h) ==
    LET n == latest_metrics(h).root_metrics_count
    IN  IF n >= 1 THEN min(unwrap_or(sel, 0), n) ELSE None

\* the new value of metrics_table_state.selected()
ensure_table_indices_are_in_ranges(sel, h) ==
    LET n == latest_metrics(h).root_metrics_count
    IN  IF n >= 1 THEN min(unwrap_or(sel, 0), n - 1) ELSE None

\* variant: drawing the table resets its cursor to the first row
render_resets_cursor(sel) == 0

\* UiState::render as it acts on the cursor: every pane is drawn with
\* render_widget, metrics_table_state is not handed to any of them
render(sel) == sel

\* render_ui issues terminal.draw
render_ui(h) == h # <<>>

\* variant: 'q' is honoured only while running
handle_key_event_quit_running(code, p) ==
    IF code = "q" /\ ~p THEN [quit |-> TRUE, pause |-> p, render |-> FALSE]
    ELSE IF code = "p" THEN [quit |-> FALSE, pause |-> ~p, render |-> TRUE]
    ELSE IF code \in {"Left", "Right", "Up", "Down"}
         THEN [quit |-> FALSE, pause |-> p, render |-> TRUE]
    ELSE [quit |-> FALSE, pause |-> p, render |-> FALSE]

\* variant: the catch-all arm returns Ok(true)
handle_key_event_any_quits(code, p) ==
    IF code = "q" THEN [quit |-> TRUE, pause |-> p, render |-> FALSE]
    ELSE IF code = "p" THEN [quit |-> FALSE, pause |-> ~p, render |-> TRUE]
    ELSE IF code \in {"Left", "Right", "Up", "Down"}
         THEN [quit |-> FALSE, pause |-> p, render |-> TRUE]
    ELSE [quit |-> TRUE, pause |-> p, render |-> FALSE]

\* variant: 'p' sets the flag instead of flipping it
handle_key_event_pause_sets(code, p) ==
    IF code = "q" THEN [quit |-> TRUE, pause |-> p, render |-> FALSE]
    ELSE IF code = "p" THEN [quit |-> FALSE, pause |-> TRUE, render |-> TRUE]
    ELSE IF code \in {"Left", "Right", "Up", "Down"}
         THEN [quit |-> FALSE, pause |-> p, render |-> TRUE]
    ELSE [quit |-> FALSE, pause |-> p, render |-> FALSE]

\* variant: the catch-all arm falls through to render_ui
handle_key_event_other_draws(code, p) ==
    IF code = "q" THEN [quit |-> TRUE, pause |-> p, render |-> FALSE]
    ELSE IF code = "p" THEN [quit |-> FALSE, pause |-> ~p, render |-> TRUE]
    ELSE [quit |-> FALSE, pause |-> p, render |-> TRUE]

\* handle_key_event without its draw: does it return Ok(true), the new pause
\* flag, and whether it goes on to render_ui
handle_key_event(code, p) ==
    IF code = "q" THEN [quit |-> TRUE, pause |-> p, render |-> FALSE]
    ELSE IF code = "p" THEN [quit |-> FALSE, pause |-> ~p, render |-> TRUE]
    ELSE IF code \in {"Left", "Right", "Up", "Down"}
         THEN [quit |-> FALSE, pause |-> p, render |-> TRUE]
    ELSE [quit |-> FALSE, pause |-> p, render |-> FALSE]

\* variant: handle_event's loop gives up without looking at the queue
poll_ignored(q) == FALSE

\* crossterm::event::poll(0 s): an event is waiting
poll(q) == q # <<>>

\* variant: a blocking recv: an empty open channel never times out
recv_timeout_blocking(c, open) ==
    IF c # <<>> THEN "Ok" ELSE IF open THEN "Blocked" ELSE "Disconnected"

\* variant: a closed channel is taken for an empty one
recv_timeout_no_disconnect(c, open) ==
    IF c # <<>> THEN "Ok" ELSE "Timeout"

\* rx.recv_timeout(poll_timeout()) on the channel as it is at the end of the wait
recv_timeout(c, open) ==
    IF c # <<>> THEN "Ok" ELSE IF open THEN "Timeout" ELSE "Disconnected"

\* variant: run sleeps whatever the pause flag
run_sleeps_always(p) == TRUE

\* variant: run polls the channel whatever the pause flag
run_sleeps_never(p) == FALSE

\* run's choice after handle_event returned false
run_sleeps(p) == p

\* setup_terminal failing at step f (0: no failure; 1: enable_raw_mode;
\* 2: EnterAlternateScreen; 3: Terminal::new)
setup_terminal(f) ==
    [ok |-> f = 0, raw |-> f # 1, alt |-> f \in {0, 3}]

\* teardown_terminal failing at step f (0: no failure; 1: disable_raw_mode;
\* 2: LeaveAlternateScreen; 3: show_cursor) from modes raw, alt
teardown_terminal(f, raw, alt) ==
    [ok |-> f = 0,
     raw |-> IF f = 1 THEN raw ELSE FALSE,
     alt |-> IF f \in {1, 2} THEN alt ELSE FALSE,
     steps |-> IF f = 0 THEN 3 ELSE f]

\* variant: a failed teardown replaces run's result
drop_result_escalates(res, ok) == IF ok THEN res ELSE "err_teardown"

\* Drop::drop returns nothing: what the caller gets is run's result, whether
\* teardown_terminal succeeded or not
drop_result(res, ok) == res

\* variant: the App is leaked (mem::forget), the caller resumes at once
after_run_forget == "done"

\* where control goes when run returns: run took self by value, so the App is
\* dropped (Drop::drop) before the caller gets the result
after_run == "drop"

\* ------------------------------------------------------------------- Init
Init ==
    /\ pc = "new"
    /\ result = "none"
    /\ pause = FALSE
    /\ history = <<>>
    /\ selected = None
    /\ inputQ = <<>>
    /\ chan = <<>>
    /\ chanOpen = TRUE
    /\ prodTime = 0
    /\ sent = 0
    /\ rawMode = FALSE
    /\ altScreen = FALSE
    /\ teardowns = 0
    /\ released = 0
    /\ warned = FALSE
    /\ typed = 0
    /\ step = "init"
    /\ drew = FALSE

\* ------------------------------------------------------------ environment

\* the user presses a key, the terminal is resized, or another event arrives
user_input_of(events) ==
    /\ pc \notin {"new", "done"}
    /\ Len(inputQ) < MaxInput
    /\ \E e \in events : inputQ' = Append(inputQ, e)
    /\ UNCHANGED <<pc, result, uiVars, chan, chanOpen, prodTime, sent, typed,
                   termVars, step, drew>>

user_input == user_input_of(TypedEvents)

\* the polling thread sends a Sample with one of the given root counts,
\* timestamps never decreasing; time is counted from the first Sample
producer_send_at(counts, deltas) ==
    /\ pc \notin {"new", "done"}
    /\ chanOpen
    /\ sent < MaxSamples
    /\ Len(chan) < MaxChan
    /\ \E d \in (IF sent = 0 THEN {0} ELSE deltas), n \in counts :
          /\ prodTime' = prodTime + d
          /\ chan' = Append(chan, Metrics(prodTime + d, n))
    /\ sent' = sent + 1
    /\ UNCHANGED <<pc, result, uiVars, inputQ, typed, chanOpen, termVars,
                   step, drew>>

producer_send_of(counts) == producer_send_at(counts, Deltas)

producer_send == producer_send_of(RootCounts)

\* the polling thread terminates and drops its Sender
producer_close ==
    /\ pc \notin {"new", "done"}
    /\ chanOpen
    /\ chanOpen' = FALSE
    /\ UNCHANGED <<pc, result, uiVars, inputQ, chan, prodTime, sent, typed,
                   termVars, step, drew>>

\* ----------------------------------------------------------------- App::new
App_new ==
    /\ pc = "new"
    /\ \E f \in 0..3 :
          LET t == setup_terminal(f)
          IN  /\ rawMode' = t.raw
              /\ altScreen' = t.alt
              /\ pc' = IF t.ok THEN "drain" ELSE "done"
              /\ result' = IF t.ok THEN "none" ELSE "err_setup"
    /\ step' = "new"
    /\ drew' = FALSE
    /\ UNCHANGED <<uiVars, envVars, teardowns, released, warned>>

\* ------------------------------------------------------------- handle_event

\* crossterm::event::poll or read returns an error
handle_event_err ==
    /\ pc = "drain"
    /\ pc' = after_run
    /\ result' = "err_input"
    /\ step' = "input_err"
    /\ drew' = FALSE
    /\ UNCHANGED <<uiVars, envVars, termVars>>

\* poll finds no event: handle_event returns Ok(false)
handle_event_empty ==
    /\ pc = "drain"
    /\ ~poll(inputQ)
    /\ pc' = "wait"
    /\ step' = "drained"
    /\ drew' = FALSE
    /\ UNCHANGED <<result, uiVars, envVars, termVars>>

\* Event::Key(key): handle_key_event, then render_ui unless it returned early
handle_event_key ==
    /\ pc = "drain"
    /\ inputQ # <<>>
    /\ Head(inputQ).type = "Key"
    /\ LET k == handle_key_event(Head(inputQ).code, pause)
           draws == k.render /\ render_ui(history)
       IN  /\ pause' = k.pause
           /\ drew' = draws
           /\ selected' = IF draws THEN render(selected) ELSE selected
           /\ \E drawOk \in BOOLEAN :
                 /\ (~draws => drawOk)
                 /\ pc' = IF k.quit \/ ~drawOk THEN after_run ELSE "drain"
                 /\ result' = IF k.quit THEN "ok"
                              ELSE IF ~drawOk THEN "err_draw" ELSE result
    /\ inputQ' = Tail(inputQ)
    /\ step' = "key"
    /\ UNCHANGED <<history, chan, chanOpen, prodTime, sent, typed, termVars>>

\* Event::Resize: terminal.draw, not through render_ui
handle_event_resize ==
    /\ pc = "drain"
    /\ inputQ # <<>>
    /\ Head(inputQ).type = "Resize"
    /\ drew' = TRUE
    /\ selected' = render(selected)
    /\ \E drawOk \in BOOLEAN :
          /\ pc' = IF drawOk THEN "drain" ELSE after_run
          /\ result' = IF drawOk THEN result ELSE "err_draw"
    /\ inputQ' = Tail(inputQ)
    /\ step' = "resize"
    /\ UNCHANGED <<pause, history, chan, chanOpen, prodTime, sent, typed, termVars>>

\* any other event: ignored
handle_event_other ==
    /\ pc = "drain"
    /\ inputQ # <<>>
    /\ Head(inputQ).type = "Other"
    /\ inputQ' = Tail(inputQ)
    /\ step' = "other"
    /\ drew' = FALSE
    /\ UNCHANGED <<pc, result, uiVars, chan, chanOpen, prodTime, sent, typed,
                   termVars>>

\* ---------------------------------------------------------- run, wait phase

\* paused: thread::sleep(poll_timeout())
run_sleep ==
    /\ pc = "wait"
    /\ run_sleeps(pause)
    /\ pc' = "drain"
    /\ step' = "sleep"
    /\ drew' = FALSE
    /\ UNCHANGED <<result, uiVars, envVars, termVars>>

\* handle_poll, Ok(metrics)
handle_poll_ok ==
    /\ pc = "wait"
    /\ ~run_sleeps(pause)
    /\ recv_timeout(chan, chanOpen) = "Ok"
    /\ LET metrics == Head(chan)
           h == push_and_evict(history, metrics)
           sel == ensure_table_indices_are_in_ranges(selected, h)
       IN  /\ history' = h
           /\ IF h = <<>>
              THEN \* latest_metrics: expect("unreachable") panics and unwinds
                   /\ selected' = selected
                   /\ drew' = FALSE
                   /\ pc' = after_run
                   /\ result' = "panic"
              ELSE /\ selected' = IF render_ui(h) THEN render(sel) ELSE sel
                   /\ drew' = render_ui(h)
                   /\ \E drawOk \in BOOLEAN :
                         /\ (~render_ui(h) => drawOk)
                         /\ pc' = IF drawOk THEN "drain" ELSE after_run
                         /\ result' = IF drawOk THEN result ELSE "err_draw"
    /\ chan' = Tail(chan)
    /\ step' = "sample"
    /\ UNCHANGED <<pause, inputQ, chanOpen, prodTime, sent, typed, termVars>>

\* handle_poll, Err(Timeout)
handle_poll_timeout ==
    /\ pc = "wait"
    /\ ~run_sleeps(pause)
    /\ recv_timeout(chan, chanOpen) = "Timeout"
    /\ pc' = "drain"
    /\ step' = "timeout"
    /\ drew' = FALSE
    /\ UNCHANGED <<result, uiVars, envVars, termVars>>

\* handle_poll, Err(Disconnected): bail!
handle_poll_disconnected ==
    /\ pc = "wait"
    /\ ~run_sleeps(pause)
    /\ recv_timeout(chan, chanOpen) = "Disconnected"
    /\ pc' = after_run
    /\ result' = "err_disconnected"
    /\ step' = "disconnected"
    /\ drew' = FALSE
    /\ UNCHANGED <<uiVars, envVars, termVars>>

\* ------------------------------------------------------------ Drop for App
\* run took self by value: leaving run drops the App, then the caller resumes
App_drop ==
    /\ pc = "drop"
    /\ \E f \in 0..3 :
          LET t == teardown_terminal(f, rawMode, altScreen)
          IN  /\ rawMode' = t.raw
              /\ altScreen' = t.alt
              /\ released' = t.steps
              /\ warned' = ~t.ok
              /\ result' = drop_result(result, t.ok)
    /\ teardowns' = teardowns + 1
    \* the fields of the App go with it: the UiState and the Receiver
    /\ pause' = FALSE
    /\ history' = <<>>
    /\ selected' = None
    /\ chan' = <<>>
    /\ pc' = "done"
    /\ step' = "drop"
    /\ drew' = FALSE
    /\ UNCHANGED <<inputQ, chanOpen, prodTime, sent, typed>>

Next ==
    \/ user_input
    \/ producer_send
    \/ producer_close
    \/ App_new
    \/ handle_event_err
    \/ handle_event_empty
    \/ handle_event_key
    \/ handle_event_resize
    \/ handle_event_other
    \/ run_sleep
    \/ handle_poll_ok
    \/ handle_poll_timeout
    \/ handle_poll_disconnected
    \/ App_drop

Spec == Init /\ [][Next]_vars

\* ---------------------------------------------------- the clamp on its own
\* The reclamp of the cursor is a function of the previous cursor and the
\* latest Sample's count.  This specification starts the loop with one Sample
\* in the window and a cursor anywhere in that Sample's table, and lets
\* Samples with larger and smaller tables arrive.
ClampCounts == {0, 2, 5}

InitClamp ==
    /\ pc = "drain"
    /\ result = "none"
    /\ pause = FALSE
    /\ \E c \in ClampCounts :
          /\ history = <<Metrics(0, c)>>
          /\ selected \in (IF c = 0 THEN {None} ELSE 0..(c - 1))
    /\ inputQ = <<>>
    /\ chan = <<>>
    /\ chanOpen = TRUE
    /\ prodTime = 0
    /\ sent = 1
    /\ rawMode = TRUE
    /\ altScreen = TRUE
    /\ teardowns = 0
    /\ released = 0
    /\ warned = FALSE
    /\ typed = 0
    /\ step = "sample"
    /\ drew = TRUE

NextClamp ==
    \/ producer_send_of(ClampCounts)
    \/ handle_event_empty
    \/ handle_poll_ok
    \/ handle_poll_timeout

SpecClamp == InitClamp /\ [][NextClamp]_vars

\* ------------------------------------------------------------------ claims

\* the control thread handles the key event `code` in this step
KeyStep(code) ==
    /\ pc = "drain"
    /\ inputQ # <<>>
    /\ Head(inputQ) = KeyEvent(code)
    /\ inputQ' = Tail(inputQ)

\* the control thread takes a Sample from the channel in this step
SampleStep ==
    /\ pc = "wait"
    /\ chan # <<>>
    /\ chan' = Tail(chan)

Newest(h) == h[Len(h)].timestamp

\* C1: after each insertion, no retained Sample is more than 60 seconds (measured
\* exactly, at sub-second resolution) older than the newest one.
C1_WindowBound ==
    history # <<>> =>
        \A i \in 1..Len(history) :
            Newest(history) - history[i].timestamp <= CHART_DURATION * TicksPerSec

\* C2: once a Sample has been processed, the cursor is None exactly when the latest
\* Sample has no root metrics, and otherwise is an index below its root count.
C2_SelectionValid ==
    history # <<>> =>
        LET n == history[Len(history)].root_metrics_count
        IN  /\ (selected = None) <=> (n = 0)
            /\ selected # None => (0 <= selected /\ selected < n)

\* the table shrank to nothing and grew again, with keys handled in between
C2_Witness ==
    /\ Len(history) = 3
    /\ history[1].root_metrics_count = 2
    /\ history[2].root_metrics_count = 0
    /\ history[3].root_metrics_count = 2
    /\ selected = 0
    /\ step = "key"
    /\ pause

\* C3: processing a Sample with root count n turns a cursor p into min(p, n-1), or
\* into None when n = 0; None counts as p = 0; the cursor never increases.
C3_ClampValue ==
    [][SampleStep =>
          LET n == Head(chan).root_metrics_count
              p == IF selected = None THEN 0 ELSE selected
          IN  /\ n = 0 => selected' = None
              /\ n > 0 => selected' = (IF p <= n - 1 THEN p ELSE n - 1)
              /\ selected # None /\ selected' # None => selected' <= selected
      ]_vars

\* a table of 5 with the cursor possibly on its last row was followed by a table of 2
C3_Witness ==
    /\ Len(history) = 2
    /\ history[1].root_metrics_count = 5
    /\ history[2].root_metrics_count = 2
    /\ selected = 1
    /\ step = "sample"

\* C4: the History Window and the cursor change, and a Sample leaves the channel,
\* only in a wait phase entered with the pause flag clear; a wait phase entered
\* with the flag set sleeps and returns to draining input.
C4_PauseFreezes ==
    [][/\ (history' # history \/ selected' # selected \/ Len(chan') < Len(chan))
              => (pc = "drop" \/ (pc = "wait" /\ ~pause))
       /\ (pc = "wait" /\ pause /\ pc' # pc)
              => (pc' = "drain" /\ step' = "sleep" /\ ~drew' /\ pause'
                  /\ result' = result)
      ]_vars

\* the loop slept through a paused iteration while Samples were waiting
C4_Witness ==
    /\ step = "sleep"
    /\ pause
    /\ Len(chan) >= 2
    /\ history # <<>>

\* C5: handling Key('q') ends the loop in that step, paused or not: nothing is
\* drawn, no Sample is taken, the state is left as it was, and afterwards no
\* event is handled and the loop is not re-entered.
C5_QuitFromAnyState ==
    [][/\ KeyStep("q")
              => (/\ pc' = "drop"
                  /\ result' = "ok"
                  /\ ~drew'
                  /\ chan' = chan
                  /\ UNCHANGED uiVars)
       /\ result = "ok"
              => (/\ pc' \in {"drop", "done"}
                  /\ result' = "ok"
                  /\ Len(inputQ') >= Len(inputQ)
                  /\ ~drew'
                  /\ step' \in {step, "drop"})
      ]_vars

\* 'q' was handled while paused, with a Sample waiting and an event behind it
C5_Witness ==
    /\ step = "key"
    /\ pc = "drop"
    /\ result = "ok"
    /\ pause
    /\ chan # <<>>
    /\ inputQ # <<>>

\* C6: after a successful setup teardown is started exactly once on every way out
\* of the loop, and before run's result reaches the caller.
C6_TeardownOnce ==
    /\ teardowns <= 1
    /\ pc \in {"new", "drain", "wait", "drop"} => teardowns = 0
    /\ (pc = "done" /\ result # "err_setup") => teardowns = 1
    /\ (pc = "done" /\ result = "err_setup") => teardowns = 0

\* run returned a draw failure after tearing the terminal down
C6_Witness ==
    /\ pc = "done"
    /\ result = "err_draw"
    /\ teardowns = 1

\* C7: a draw issued by a key or a Resize happens only with a non-empty History
\* Window.
C7_RedrawGuard ==
    (step \in {"key", "resize"} /\ drew) => history # <<>>

\* C8: a wait on the channel that finds it closed and empty ends the loop with the
\* disconnection error, draws nothing and leaves the UiState alone; the error is
\* raised in no other situation.
C8_DisconnectFatal ==
    [][/\ (pc = "wait" /\ ~pause /\ chan = <<>> /\ ~chanOpen /\ pc' # pc)
              => (/\ pc' = "drop"
                  /\ result' = "err_disconnected"
                  /\ ~drew'
                  /\ UNCHANGED uiVars)
       /\ (result' = "err_disconnected" /\ result # "err_disconnected")
              => (pc = "wait" /\ ~pause /\ chan = <<>> /\ ~chanOpen)
      ]_vars

\* the producer went away after Samples had been shown
C8_Witness ==
    /\ step = "disconnected"
    /\ pc = "drop"
    /\ result = "err_disconnected"
    /\ history # <<>>

\* C9: run's result is Ok exactly when Key('q') was handled; every other way out of
\* the loop carries one of the three errors, and the result is not changed on
\* its way to the caller.
C9_ExitOutcome ==
    [][/\ (result' = "ok" /\ result # "ok") <=> KeyStep("q")
       /\ (pc \in {"drain", "wait"} /\ pc' \notin {"drain", "wait"})
              => (/\ pc' = "drop"
                  /\ result' \in {"ok", "err_disconnected", "err_draw", "err_input"}
                  /\ result' = "err_disconnected" => step' = "disconnected"
                  /\ result' = "err_draw" => drew'
                  /\ result' = "err_input" => step' = "input_err")
       /\ (pc \in {"drain", "wait"} /\ pc' \in {"drain", "wait"})
              => result' = "none"
       /\ pc \in {"drop", "done"} => result' = result
      ]_vars

\* run returned Ok to its caller
C9_Witness ==
    /\ pc = "done"
    /\ result = "ok"
    /\ teardowns = 1

\* C10: App::new returning an error leaves the terminal neither in raw mode nor in
\* the alternate screen.
C10_SetupFailureRestores ==
    result = "err_setup" => (~rawMode /\ ~altScreen)

\* C11: whatever teardown does, the step that drops the App hands run's result to
\* the caller unchanged and always completes; a teardown failure shows only as
\* the logged warning, never as a result of its own.
C11_TeardownNeverMasks ==
    [][/\ (pc = "drop" /\ pc' # pc)
              => (/\ pc' = "done"
                  /\ result' = result
                  /\ (released' < 3 \/ rawMode' \/ altScreen') => warned')
       /\ result' \in {"none", "ok", "err_setup", "err_disconnected",
                       "err_draw", "err_input"}
      ]_vars

\* the producer's disconnection reached the caller although teardown failed at
\* its first step
C11_Witness ==
    /\ pc = "done"
    /\ result = "err_disconnected"
    /\ warned
    /\ released = 1
    /\ rawMode

\* C20: every run of teardown_terminal gets to all three of its steps: leaving raw
\* mode, leaving the alternate screen, showing the cursor.
C20_ReleaseRestoresAll ==
    teardowns >= 1 => released = 3

\* C12: the wait phase is entered only from a drain that found the queue empty;
\* events leave the queue oldest first; a wait phase takes at most one Sample
\* and then returns to draining.
C12_InputBeforeMetrics ==
    [][/\ (pc' = "wait" /\ pc # "wait") => (pc = "drain" /\ inputQ = <<>>)
       /\ (pc = "drain" /\ Len(inputQ') < Len(inputQ)) => inputQ' = Tail(inputQ)
       /\ SampleStep => (pc' \in {"drain", "drop"} /\ Len(chan') = Len(chan) - 1)
       /\ (pc = "wait" /\ pc' # pc) => (pc' \in {"drain", "drop"} /\ step = "drained")
      ]_vars

\* between two Samples, with the next one already waiting, the queue was drained
C12_Witness ==
    /\ pc = "wait"
    /\ step = "drained"
    /\ ~pause
    /\ history # <<>>
    /\ Len(chan) >= 2
    /\ inputQ = <<>>

\* ------------------------------------------------------- every kind of event
\* The loop under every event handle_event and handle_key_event tell apart
\* (all four arrow keys), with Samples a little over a chart duration apart.
KeysCounts == {0, 2}
KeysDeltas == {(CHART_DURATION + 1) * TicksPerSec}

NextKeys ==
    \/ user_input_of(Events)
    \/ producer_send_at(KeysCounts, KeysDeltas)
    \/ producer_close
    \/ App_new
    \/ handle_event_err
    \/ handle_event_empty
    \/ handle_event_key
    \/ handle_event_resize
    \/ handle_event_other
    \/ run_sleep
    \/ handle_poll_ok
    \/ handle_poll_timeout
    \/ handle_poll_disconnected
    \/ App_drop

SpecKeys == Init /\ [][NextKeys]_vars

\* ------------------------------------------------------- the window at work
\* The loop under the events that change what it does ('q', 'p', a resize),
\* with the producer of Spec: Samples a tick or a chart duration apart.
WindowEvents == {KeyEvent("q"), KeyEvent("p"), ResizeEvent}

NextWindow ==
    \/ user_input_of(WindowEvents)
    \/ producer_send
    \/ producer_close
    \/ App_new
    \/ handle_event_err
    \/ handle_event_empty
    \/ handle_event_key
    \/ handle_event_resize
    \/ run_sleep
    \/ handle_poll_ok
    \/ handle_poll_timeout
    \/ handle_poll_disconnected
    \/ App_drop

SpecWindow == Init /\ [][NextWindow]_vars

\* the control thread handles a Resize event in this step
ResizeStep ==
    /\ pc = "drain"
    /\ inputQ # <<>>
    /\ Head(inputQ) = ResizeEvent
    /\ inputQ' = Tail(inputQ)

\* a step of the control thread, as opposed to one of the user or the producer
ControlStep == pc' # pc \/ (inputQ # <<>> /\ inputQ' = Tail(inputQ))

\* C13: the pause flag starts false; handling Key('p') flips it and leaves the
\* History Window and the cursor alone; no other step of the loop changes it.
C13_PauseToggle ==
    /\ ~pause
    /\ [][/\ KeyStep("p")
                 => (/\ pause' = ~pause
                     /\ history' = history
                     /\ selected' = selected
                     /\ \/ (pc' = "drain" /\ result' = result)
                        \/ (drew' /\ pc' = "drop" /\ result' = "err_draw"))
          /\ pause' # pause => (KeyStep("p") \/ (pc = "drop" /\ pc' = "done"))
         ]_vars

\* one 'p' has paused the loop and the next 'p' is first in the same batch
C13_Witness ==
    /\ pc = "drain"
    /\ step = "key"
    /\ pause
    /\ inputQ # <<>>
    /\ Head(inputQ) = KeyEvent("p")

\* C14: a step of the loop draws only when it handles a Sample, a Resize or one of
\* 'p', Up, Down, Left, Right; a timeout, a pause sleep, an unrecognized key and
\* any other event draw nothing, raise no error and leave the UiState alone.
C14_RedrawCauses ==
    [][/\ (ControlStep /\ drew')
              => (\/ SampleStep
                  \/ ResizeStep
                  \/ \E c \in {"p", "Up", "Down", "Left", "Right"} : KeyStep(c))
       /\ (ControlStep /\ (step' \in {"timeout", "sleep", "other"} \/ KeyStep("Other")))
              => (/\ ~drew'
                  /\ result' = result
                  /\ pc' = "drain"
                  /\ UNCHANGED uiVars)
      ]_vars

\* an unrecognized key was handled, paused, with Samples on display
C14_Witness ==
    /\ step = "key"
    /\ ~drew
    /\ pc = "drain"
    /\ pause
    /\ history # <<>>

\* C17: the History Window starts empty and the cursor at None; inside the loop
\* both change only in the step that receives a Sample, which is never taken
\* while paused.
C17_OnlySampleMutates ==
    /\ history = <<>>
    /\ selected = None
    /\ [][(history' # history \/ selected' # selected)
              => (\/ (SampleStep /\ ~pause /\ step' = "sample")
                  \/ (pc = "drop" /\ pc' = "done"))
         ]_vars

\* a Resize was redrawn over a window and cursor set by an earlier Sample
C17_Witness ==
    /\ step = "resize"
    /\ drew
    /\ history # <<>>
    /\ selected = 0

\* C15: the step that receives a Sample leaves the History Window non-empty with
\* that Sample as its newest element, finds the latest Sample and issues its
\* draw; inside the loop a non-empty window never becomes empty again.
C15_SampleAlwaysRedraws ==
    [][/\ SampleStep
              => (/\ history' # <<>>
                  /\ history'[Len(history')] = Head(chan)
                  /\ result' # "panic"
                  /\ drew'
                  /\ step' = "sample")
       /\ (history # <<>> /\ history' = <<>>) => (pc = "drop" /\ pc' = "done")
      ]_vars

\* the third Sample, two chart durations after the first, evicted the first and
\* was drawn as the newest of the two that remain
C15_Witness ==
    /\ step = "sample"
    /\ drew
    /\ Len(history) = 2
    /\ history[1].timestamp = CHART_DURATION * TicksPerSec
    /\ history[2].timestamp = 2 * CHART_DURATION * TicksPerSec

\* C16: after each insertion the History Window is exactly the Samples, in received
\* order, that are at most 60 seconds older than the one just received: with
\* non-decreasing timestamps that is the longest such suffix of what was
\* received, a Sample exactly 60 seconds older included.
C16_ExactWindow ==
    [][SampleStep =>
          LET newest == Head(chan).timestamp
              InBound(m) == newest - m.timestamp <= CHART_DURATION * TicksPerSec
          IN  history' = SelectSeq(Append(history, Head(chan)), InBound)
      ]_vars

\* ------------------------------------------------------------ the loop, fair
\* The control thread keeps running: thread::sleep and recv_timeout return
\* after poll_timeout at the latest, poll(0 s) and read of a waiting event
\* return at once.  The user produces finitely many events; neither the user
\* nor the producer owes any step.
LiveEvents == {KeyEvent("q"), KeyEvent("p"), ResizeEvent}
LiveCounts == {2}
LiveDeltas == {1}

user_input_live ==
    /\ pc \notin {"new", "done"}
    /\ typed < MaxTyped
    /\ Len(inputQ) < MaxInput
    /\ \E e \in LiveEvents : inputQ' = Append(inputQ, e)
    /\ typed' = typed + 1
    /\ UNCHANGED <<pc, result, uiVars, chan, chanOpen, prodTime, sent,
                   termVars, step, drew>>

Controller ==
    \/ App_new
    \/ handle_event_err
    \/ handle_event_empty
    \/ handle_event_key
    \/ handle_event_resize
    \/ handle_event_other
    \/ run_sleep
    \/ handle_poll_ok
    \/ handle_poll_timeout
    \/ handle_poll_disconnected
    \/ App_drop

NextLive ==
    \/ user_input_live
    \/ producer_send_at(LiveCounts, LiveDeltas)
    \/ producer_close
    \/ App_new
    \/ handle_event_err
    \/ handle_event_empty
    \/ handle_event_key
    \/ handle_event_resize
    \/ run_sleep
    \/ handle_poll_ok
    \/ handle_poll_timeout
    \/ handle_poll_disconnected
    \/ App_drop

SpecLive == Init /\ [][NextLive]_vars /\ WF_vars(Controller)

\* the loop is running, the producer is gone and nothing is left in the channel
ClosedAndDrained == pc \in {"drain", "wait"} /\ ~chanOpen /\ chan = <<>>

\* run has returned an error to its caller after the teardown
FatalDone ==
    /\ pc = "done"
    /\ teardowns = 1
    /\ result \in {"err_disconnected", "err_draw", "err_input"}

\* C18 as stated: from every state of the loop with the channel closed and drained,
\* unless 'q' is handled, run eventually returns a fatal error after teardown.
C18_DisconnectTerminates ==
    ClosedAndDrained ~> (result = "ok" \/ FatalDone)

\* C18 amended: the same, for a loop that is not paused from then on.
C18_DisconnectTerminatesUnlessPaused ==
    ClosedAndDrained ~> (pause \/ result = "ok" \/ FatalDone)

\* the disconnection ended run after keys had been handled and Samples shown
C18_Witness ==
    /\ pc = "done"
    /\ result = "err_disconnected"
    /\ teardowns = 1
    /\ typed >= 1
    /\ sent >= 1

\* a Key('q') is waiting in the input queue of the running loop
QuitQueued ==
    /\ pc \in {"drain", "wait"}
    /\ \E i \in 1..Len(inputQ) : inputQ[i] = KeyEvent("q")

\* C19: a queued Key('q') leads to run returning, whether the loop is running or
\* paused and whether or not Samples arrive.
C19_QuitResponsive ==
    QuitQueued ~> (pc = "done" /\ result # "none" /\ teardowns = 1)

\* 'q' was handled behind a 'p' that paused the loop, no Sample ever sent
C19_Witness ==
    /\ pc = "drop"
    /\ result = "ok"
    /\ pause
    /\ typed = MaxTyped
    /\ sent = 0

====
